---- MODULE Spec2Model ----
(***************************************************************************)
(* Model of the Pool API ledger path (src/index.js): POST /api/transactions *)
(* validates the body, asks the chain oracle, and then issues BEGIN, the    *)
(* INSERT into transactions, the UPDATE of pools, the participant           *)
(* statements and COMMIT, each one through db.query on the shared pg Pool.  *)
(* db is a node-postgres Pool: pool.query hands each statement to whichever  *)
(* pooled client is free at that moment (other requests and the GET routes  *)
(* use the same Pool), so every statement of a request names the client     *)
(* that runs it, and a transaction is a property of a client, not of a      *)
(* request.  The earlier revision of the handler (src/unnamed/part_000) is  *)
(* modelled next to it.                                                     *)
(***************************************************************************)
EXTENDS Integers, Sequences, FiniteSets, TLC

\* ---------------------------------------------------------------- bounds
NumReqs == 2
NumClients == 2
MaxAmount == 2

Reqs == 1..NumReqs
Clients == 1..NumClients

\* ------------------------------------------------------- request bodies
\* A string field that is missing or empty is "", a missing poolId is 0
\* (both are falsy in JavaScript); amount keeps "undefined" apart.
ExistingPools == {1}
TxTypes == {"Deposit", "withdraw"}
\* A txType that is present but not a string (the JSON number 7): it is
\* truthy and has no toLowerCase method.
NonString == "<7>"
NoAmount == [def |-> FALSE, v |-> 0]
Amount(n) == [def |-> TRUE, v |-> n]
Amounts == {Amount(n) : n \in 1..MaxAmount}

\* The scenario of the spec's section 8: a Sepolia deposit into pool 1.
BaseBody ==
    [chain |-> "Sepolia", txHashOrSig |-> "0xabc", poolId |-> 1,
     userAddress |-> "0xu1", amount |-> Amount(1), txType |-> "Deposit"]

\* Deposits and withdrawals of every amount by one user on pool 1.
CoreBodies ==
    { [BaseBody EXCEPT !.amount = a, !.txType = t] :
        a \in Amounts, t \in TxTypes }

\* BaseBody on the other chains, on a pool that does not exist, with the
\* transaction type in other letter cases, neither a deposit nor a
\* withdrawal, or not a string at all, with a negative amount, and from a
\* second user.
VariantBodies ==
    { [BaseBody EXCEPT !.chain = "SolanaDevnet"],
      [BaseBody EXCEPT !.chain = "Goerli"],
      [BaseBody EXCEPT !.poolId = 2],
      [BaseBody EXCEPT !.txType = "deposit"],
      [BaseBody EXCEPT !.txType = "WITHDRAW"],
      [BaseBody EXCEPT !.txType = "stake"],
      [BaseBody EXCEPT !.txType = NonString],
      [BaseBody EXCEPT !.amount = Amount(0 - 1)],
      [BaseBody EXCEPT !.amount = Amount(0 - 1), !.txType = "withdraw"],
      [BaseBody EXCEPT !.userAddress = "0xu2", !.amount = Amount(MaxAmount)],
      [BaseBody EXCEPT !.userAddress = "0xu2", !.txType = "withdraw"] }

\* BaseBody with one field left out.
IncompleteBodies ==
    { [BaseBody EXCEPT !.chain = ""],
      [BaseBody EXCEPT !.txHashOrSig = ""],
      [BaseBody EXCEPT !.poolId = 0],
      [BaseBody EXCEPT !.userAddress = ""],
      [BaseBody EXCEPT !.txType = ""],
      [BaseBody EXCEPT !.amount = NoAmount] }

Bodies == CoreBodies \cup VariantBodies \cup IncompleteBodies

NoBody == [BaseBody EXCEPT !.chain = "", !.txHashOrSig = "", !.poolId = 0,
                           !.userAddress = "", !.txType = "",
                           !.amount = NoAmount]

\* ------------------------------------------------------------ responses
NoResponse == [status |-> 0, error |-> ""]
Ok200 == [status |-> 200, error |-> ""]
MissingFields400 == [status |-> 400, error |-> "Missing required fields"]
NotVerified400 ==
    [status |-> 400, error |-> "Could not verify transaction on-chain"]
ServerError500 == [status |-> 500, error |-> "Server error"]

\* ------------------------------------------------------- pure functions
\* index.js:69-76, the guard of the 400 "Missing required fields" reply.
MissingRequired(b) ==
    \/ b.chain = ""
    \/ b.txHashOrSig = ""
    \/ b.poolId = 0
    \/ b.userAddress = ""
    \/ b.txType = ""
    \/ ~b.amount.def

\* part_000:62, the earlier guard: amount is not looked at.
LegacyMissingRequired(b) ==
    \/ b.chain = ""
    \/ b.txHashOrSig = ""
    \/ b.poolId = 0
    \/ b.userAddress = ""
    \/ b.txType = ""

\* index.js:81, whether txType.toLowerCase is a function.
HasToLowerCase(s) == s # NonString

\* index.js:81, String.prototype.toLowerCase on the txType values used.
ToLowerCase(s) ==
    CASE s = "Deposit" -> "deposit"
      [] s = "Withdraw" -> "withdraw"
      [] s = "DEPOSIT" -> "deposit"
      [] s = "WITHDRAW" -> "withdraw"
      [] OTHER -> s

\* index.js:114, parseFloat of a JSON number.
ParseFloat(a) == a.v

\* Oracle outcomes: a receipt / transaction object of a successful
\* transaction, one of a failed transaction, null, or a thrown error.
OracleOutcomes == {"success", "failed", "null", "throw"}

\* verifyOnSepolia without the test of receipt.status: any receipt verifies.
verifyOnSepolia_AnyReceipt(o) ==
    IF o = "throw" THEN FALSE
    ELSE o # "null"

\* index.js:35-44
verifyOnSepolia(o) ==
    IF o = "throw" THEN FALSE
    ELSE o # "null" /\ o = "success"

\* index.js:49-59
verifyOnSolana(o) ==
    IF o = "throw" THEN FALSE
    ELSE o # "null"

\* SQL NULL and the SQL functions of poolUpdateQuery.
NULL == <<>>
Val(n) == <<n>>
COALESCE(x, d) == IF x = NULL THEN d ELSE x[1]
\* GREATEST without the floor: the first argument as it is.
GREATEST_Unclamped(a, b) == a

GREATEST(a, b) == IF a >= b THEN a ELSE b

\* PoolRowUpdate with a withdrawal limited to what the pool holds: the
\* balance is not lowered below 0.
PoolRowUpdate_BalanceFloored(row, txTypeLower, amountNumber) ==
    [current_pool_balance |->
        Val(IF txTypeLower = "deposit"
            THEN COALESCE(row.current_pool_balance, 0) + amountNumber
            ELSE GREATEST(COALESCE(row.current_pool_balance, 0) - amountNumber,
                          0)),
     active_entries |->
        Val(GREATEST(IF txTypeLower = "deposit"
                     THEN COALESCE(row.active_entries, 0) + 1
                     ELSE COALESCE(row.active_entries, 0) - 1, 0))]

\* index.js:117-126, the SET clause applied to one pools row.
PoolRowUpdate(row, txTypeLower, amountNumber) ==
    [current_pool_balance |->
        Val(IF txTypeLower = "deposit"
            THEN COALESCE(row.current_pool_balance, 0) + amountNumber
            ELSE COALESCE(row.current_pool_balance, 0) - amountNumber),
     active_entries |->
        Val(GREATEST(IF txTypeLower = "deposit"
                     THEN COALESCE(row.active_entries, 0) + 1
                     ELSE COALESCE(row.active_entries, 0) - 1, 0))]

\* ---------------------------------------------------------------- state
VARIABLES
    pc,                 \* where each request's handler is suspended
    body,               \* req.body of each request
    verified,           \* the handler's local `verified`
    oracleCalls,        \* oracle queries made for each request
    oracleAnswer,       \* what the oracle did when queried for each request
    response,           \* the response sent for each request
    transactions,       \* committed rows of table transactions
    pools,              \* committed rows of table pools, by id
    pool_participants,  \* committed rows of table pool_participants
    clients,            \* the pooled connections and their open transactions
    dash                \* a GET /api/dashboard call: its input, the rows
                        \* it reads and the response it sends

vars == <<pc, body, verified, oracleCalls, oracleAnswer, response,
          transactions, pools, pool_participants, clients, dash>>

tables == <<transactions, pools, pool_participants>>

\* A pooled connection: whether a transaction is open on it and what that
\* transaction has written so far (rows hidden from every other connection
\* until COMMIT): inserted transactions rows, new versions of pools rows,
\* committed participant rows it replaced or deleted, and participant rows
\* it created.
NoTx == [inTx |-> FALSE, wTx |-> {}, wPools |-> {}, pDel |-> {}, pIns |-> {}]

\* No oracle has answered yet.
NotAsked == "not asked"

\* No dashboard call is being served.
NoDashboard ==
    [walletAddress |-> "", pools |-> <<>>, pool_participants |-> <<>>,
     sent |-> FALSE, response |-> <<>>]

InitialPools ==
    [p \in ExistingPools |->
        [current_pool_balance |-> NULL, active_entries |-> NULL]]

Init ==
    /\ pc = [r \in Reqs |-> "new"]
    /\ body = [r \in Reqs |-> NoBody]
    /\ verified = [r \in Reqs |-> FALSE]
    /\ oracleCalls = [r \in Reqs |-> 0]
    /\ oracleAnswer = [r \in Reqs |-> NotAsked]
    /\ response = [r \in Reqs |-> NoResponse]
    /\ transactions = {}
    /\ pools = InitialPools
    /\ pool_participants = {}
    /\ clients = [c \in Clients |-> NoTx]
    /\ dash = NoDashboard

\* ------------------------------------------------- the store, per client
Matches(row, poolId, userAddress) ==
    row.pool_id = poolId /\ row.user_address = userAddress

\* What a statement run on client c sees: the committed rows overlaid with
\* the writes of the transaction open on c.
PoolsSeen(c) ==
    [p \in ExistingPools |->
        IF \E w \in clients[c].wPools : w.id = p
        THEN (CHOOSE w \in clients[c].wPools : w.id = p).row
        ELSE pools[p]]

ParticipantsSeen(c) ==
    (pool_participants \ clients[c].pDel) \cup clients[c].pIns

\* Row locks: a row written by a transaction still open on another client.
PoolLocked(c, poolId) ==
    \E c2 \in Clients \ {c} : \E w \in clients[c2].wPools : w.id = poolId

ParticipantWrittenBy(c2, poolId, userAddress) ==
    \E row \in clients[c2].pDel \cup clients[c2].pIns :
        Matches(row, poolId, userAddress)

ParticipantReplacedBy(c2, poolId, userAddress) ==
    \E row \in clients[c2].pDel : Matches(row, poolId, userAddress)

\* The effect on the store of a statement that turns the participant rows
\* seen on client c into newRows: staged when a transaction is open on c,
\* committed at once otherwise.
WriteParticipants(c, newRows) ==
    LET seen == ParticipantsSeen(c)
        gone == seen \ newRows
        made == newRows \ seen
    IN  IF clients[c].inTx
        THEN /\ clients' = [clients EXCEPT
                    ![c].pDel = @ \cup (gone \cap pool_participants),
                    ![c].pIns = (@ \ gone) \cup made]
             /\ UNCHANGED pool_participants
        ELSE /\ pool_participants' = newRows
             /\ UNCHANGED clients

WritePools(c, newPools, touched) ==
    IF clients[c].inTx
    THEN /\ clients' = [clients EXCEPT
                ![c].wPools =
                    {w \in @ : w.id \notin touched}
                    \cup {[id |-> p, row |-> newPools[p]] : p \in touched}]
         /\ UNCHANGED pools
    ELSE /\ pools' = newPools
         /\ UNCHANGED clients

WriteTransactions(c, row) ==
    IF clients[c].inTx
    THEN /\ clients' = [clients EXCEPT ![c].wTx = @ \cup {row}]
         /\ UNCHANGED transactions
    ELSE /\ transactions' = transactions \cup {row}
         /\ UNCHANGED clients

\* ------------------------------------------------------ SQL statements
\* index.js:101-112
TransactionRow(r, transactionType) ==
    [req |-> r,
     pool_id |-> body[r].poolId,
     transaction_type |-> transactionType,
     amount |-> IF body[r].amount.def THEN Val(body[r].amount.v) ELSE NULL,
     user_address |-> body[r].userAddress,
     tx_hash_or_sig |-> body[r].txHashOrSig]

\* index.js:117-127
poolUpdateQuery(rows, txTypeLower, amountNumber, poolId) ==
    [p \in DOMAIN rows |->
        IF p = poolId
        THEN PoolRowUpdate(rows[p], txTypeLower, amountNumber)
        ELSE rows[p]]

\* index.js:131-136
participantInsertQuery(rows, poolId, userAddress, amountNumber) ==
    IF \E row \in rows : Matches(row, poolId, userAddress)
    THEN { IF Matches(row, poolId, userAddress)
           THEN [row EXCEPT !.amount = @ + amountNumber]
           ELSE row : row \in rows }
    ELSE rows \cup {[pool_id |-> poolId, user_address |-> userAddress,
                     amount |-> amountNumber]}

\* index.js:143-147
participantUpdateQuery(rows, amountNumber, poolId, userAddress) ==
    { IF Matches(row, poolId, userAddress)
      THEN [row EXCEPT !.amount = @ - amountNumber]
      ELSE row : row \in rows }

\* index.js:155-158
participantDeleteQuery(rows, poolId, userAddress) ==
    { row \in rows : ~(Matches(row, poolId, userAddress) /\ row.amount <= 0) }

\* ------------------------------------------- POST /api/transactions
Statements ==
    {"begin", "insert", "poolupd", "partins", "partupd", "partdel", "commit"}

txTypeLower(r) == ToLowerCase(body[r].txType)
amountNumber(r) == ParseFloat(body[r].amount)

Goto(r, label) == pc' = [pc EXCEPT ![r] = label]
Reply(r, res) == response' = [response EXCEPT ![r] = res]

\* Receive with `verified` starting out true: a chain that no verifier is
\* asked about goes on to BEGIN.
Receive_UnknownChainPasses(r, b) ==
    /\ pc[r] = "new"
    /\ \A q \in Reqs : q < r => pc[q] # "new"
    /\ body' = [body EXCEPT ![r] = b]
    /\ IF MissingRequired(b)
       THEN /\ Reply(r, MissingFields400)
            /\ Goto(r, "done")
            /\ UNCHANGED oracleCalls
       ELSE IF ~HasToLowerCase(b.txType)
       THEN /\ Goto(r, "rollback")
            /\ UNCHANGED <<response, oracleCalls>>
       ELSE IF b.chain \in {"Sepolia", "SolanaDevnet"}
       THEN /\ oracleCalls' = [oracleCalls EXCEPT ![r] = @ + 1]
            /\ Goto(r, "verify")
            /\ UNCHANGED response
       ELSE /\ Goto(r, "begin")
            /\ UNCHANGED <<response, oracleCalls>>
    /\ UNCHANGED <<verified, tables, clients>>
    /\ UNCHANGED <<oracleAnswer, dash>>

\* index.js:64-89: the request arrives (requests are numbered in order of
\* arrival); the handler runs up to its first await, which is the oracle
\* call of the chain named in the body, or, when txType.toLowerCase throws,
\* the ROLLBACK of the catch block.
Receive(r, b) ==
    /\ pc[r] = "new"
    /\ \A q \in Reqs : q < r => pc[q] # "new"
    /\ body' = [body EXCEPT ![r] = b]
    /\ IF MissingRequired(b)
       THEN /\ Reply(r, MissingFields400)
            /\ Goto(r, "done")
            /\ UNCHANGED oracleCalls
       ELSE IF ~HasToLowerCase(b.txType)
       THEN /\ Goto(r, "rollback")
            /\ UNCHANGED <<response, oracleCalls>>
       ELSE IF b.chain \in {"Sepolia", "SolanaDevnet"}
       THEN /\ oracleCalls' = [oracleCalls EXCEPT ![r] = @ + 1]
            /\ Goto(r, "verify")
            /\ UNCHANGED response
       ELSE /\ Reply(r, NotVerified400)
            /\ Goto(r, "done")
            /\ UNCHANGED oracleCalls
    /\ UNCHANGED <<verified, tables, clients>>
    /\ UNCHANGED <<oracleAnswer, dash>>

\* OracleReturn without the `if (!verified) return`: BEGIN is sent whatever
\* the verifier said.
OracleReturn_Unchecked(r, o) ==
    /\ pc[r] = "verify"
    /\ LET v == IF body[r].chain = "Sepolia"
                THEN verifyOnSepolia(o)
                ELSE verifyOnSolana(o)
       IN  verified' = [verified EXCEPT ![r] = v]
    /\ oracleAnswer' = [oracleAnswer EXCEPT ![r] = o]
    /\ Goto(r, "begin")
    /\ UNCHANGED <<body, oracleCalls, response, tables, clients>>
    /\ UNCHANGED dash

\* index.js:85-98: the oracle answers; 400 unless verified, else BEGIN is
\* sent.
OracleReturn(r, o) ==
    /\ pc[r] = "verify"
    /\ LET v == IF body[r].chain = "Sepolia"
                THEN verifyOnSepolia(o)
                ELSE verifyOnSolana(o)
       IN  /\ verified' = [verified EXCEPT ![r] = v]
           /\ oracleAnswer' = [oracleAnswer EXCEPT ![r] = o]
           /\ IF v
              THEN Goto(r, "begin") /\ UNCHANGED response
              ELSE Goto(r, "done") /\ Reply(r, NotVerified400)
    /\ UNCHANGED <<body, oracleCalls, tables, clients>>
    /\ UNCHANGED dash

\* index.js:98, db.query("BEGIN") served by client c.
Begin(r, c) ==
    /\ pc[r] = "begin"
    /\ clients' = [clients EXCEPT ![c].inTx = TRUE]
    /\ Goto(r, "insert")
    /\ UNCHANGED <<body, verified, oracleCalls, response, tables>>
    /\ UNCHANGED <<oracleAnswer, dash>>

\* index.js:101-112, the INSERT into transactions served by client c.
InsertTransaction(r, c) ==
    /\ pc[r] = "insert"
    /\ WriteTransactions(c, TransactionRow(r, txTypeLower(r)))
    /\ Goto(r, "poolupd")
    /\ UNCHANGED <<body, verified, oracleCalls, response, pools,
                   pool_participants>>
    /\ UNCHANGED <<oracleAnswer, dash>>

\* UpdatePool with active_entries as a count of participants: a deposit of
\* a user who already has a participant row leaves active_entries as it is.
UpdatePool_ParticipantCount(r, c) ==
    /\ pc[r] = "poolupd"
    /\ LET touched == {body[r].poolId} \cap ExistingPools
           updated == poolUpdateQuery(PoolsSeen(c), txTypeLower(r),
                                      amountNumber(r), body[r].poolId)
           known == \E row \in ParticipantsSeen(c) :
                       Matches(row, body[r].poolId, body[r].userAddress)
       IN  /\ \A p \in touched : ~PoolLocked(c, p)
           /\ WritePools(c,
                  [p \in DOMAIN updated |->
                      IF p \in touched /\ txTypeLower(r) = "deposit" /\ known
                      THEN [updated[p] EXCEPT !.active_entries =
                                PoolsSeen(c)[p].active_entries]
                      ELSE updated[p]],
                  touched)
    /\ Goto(r, IF txTypeLower(r) = "deposit" THEN "partins"
               ELSE IF txTypeLower(r) = "withdraw" THEN "partupd"
               ELSE "commit")
    /\ UNCHANGED <<body, verified, oracleCalls, response, transactions,
                   pool_participants>>
    /\ UNCHANGED <<oracleAnswer, dash>>

\* index.js:114-130, the UPDATE of pools served by client c; it waits while
\* another open transaction holds the row.
UpdatePool(r, c) ==
    /\ pc[r] = "poolupd"
    /\ LET touched == {body[r].poolId} \cap ExistingPools
       IN  /\ \A p \in touched : ~PoolLocked(c, p)
           /\ WritePools(c,
                  poolUpdateQuery(PoolsSeen(c), txTypeLower(r),
                                  amountNumber(r), body[r].poolId),
                  touched)
    /\ Goto(r, IF txTypeLower(r) = "deposit" THEN "partins"
               ELSE IF txTypeLower(r) = "withdraw" THEN "partupd"
               ELSE "commit")
    /\ UNCHANGED <<body, verified, oracleCalls, response, transactions,
                   pool_participants>>
    /\ UNCHANGED <<oracleAnswer, dash>>

\* index.js:130-141, the participant upsert served by client c; it waits
\* while another open transaction has written the (pool, user) row.
UpsertParticipant(r, c) ==
    /\ pc[r] = "partins"
    /\ \A c2 \in Clients \ {c} :
          ~ParticipantWrittenBy(c2, body[r].poolId, body[r].userAddress)
    /\ WriteParticipants(c,
          participantInsertQuery(ParticipantsSeen(c), body[r].poolId,
                                 body[r].userAddress, amountNumber(r)))
    /\ Goto(r, "commit")
    /\ UNCHANGED <<body, verified, oracleCalls, response, transactions,
                   pools>>
    /\ UNCHANGED <<oracleAnswer, dash>>

\* index.js:142-152, the participant UPDATE served by client c.
UpdateParticipant(r, c) ==
    /\ pc[r] = "partupd"
    /\ \A c2 \in Clients \ {c} :
          ~ParticipantReplacedBy(c2, body[r].poolId, body[r].userAddress)
    /\ WriteParticipants(c,
          participantUpdateQuery(ParticipantsSeen(c), amountNumber(r),
                                 body[r].poolId, body[r].userAddress))
    /\ Goto(r, "partdel")
    /\ UNCHANGED <<body, verified, oracleCalls, response, transactions,
                   pools>>
    /\ UNCHANGED <<oracleAnswer, dash>>

\* index.js:154-158, the participant DELETE served by client c.
DeleteParticipant(r, c) ==
    /\ pc[r] = "partdel"
    /\ \A c2 \in Clients \ {c} :
          ~ParticipantReplacedBy(c2, body[r].poolId, body[r].userAddress)
    /\ WriteParticipants(c,
          participantDeleteQuery(ParticipantsSeen(c), body[r].poolId,
                                 body[r].userAddress))
    /\ Goto(r, "commit")
    /\ UNCHANGED <<body, verified, oracleCalls, response, transactions,
                   pools>>
    /\ UNCHANGED <<oracleAnswer, dash>>

\* COMMIT on client c: the writes of the transaction open on c, whoever
\* issued them, become the committed rows.
CommitOn(c) ==
    /\ transactions' = transactions \cup clients[c].wTx
    /\ pools' = PoolsSeen(c)
    /\ pool_participants' = ParticipantsSeen(c)
    /\ clients' = [clients EXCEPT ![c] = NoTx]

\* ROLLBACK on client c: the writes of the transaction open on c are dropped.
RollbackOn(c) ==
    /\ clients' = [clients EXCEPT ![c] = NoTx]
    /\ UNCHANGED tables

\* index.js:161-164, db.query("COMMIT") served by client c, then the 200.
Commit(r, c) ==
    /\ pc[r] = "commit"
    /\ CommitOn(c)
    /\ Reply(r, Ok200)
    /\ Goto(r, "done")
    /\ UNCHANGED <<body, verified, oracleCalls>>
    /\ UNCHANGED <<oracleAnswer, dash>>

\* index.js:165, a db.query of the unit rejects: control goes to the catch
\* block, whose first statement sends ROLLBACK.
QueryFails(r) ==
    /\ pc[r] \in Statements
    /\ Goto(r, "rollback")
    /\ UNCHANGED <<body, verified, oracleCalls, response, tables, clients>>
    /\ UNCHANGED <<oracleAnswer, dash>>

\* index.js:166-168, db.query("ROLLBACK") served by client c, then the 500.
Rollback(r, c) ==
    /\ pc[r] = "rollback"
    /\ RollbackOn(c)
    /\ Reply(r, ServerError500)
    /\ Goto(r, "done")
    /\ UNCHANGED <<body, verified, oracleCalls>>
    /\ UNCHANGED <<oracleAnswer, dash>>

\* index.js:166, the ROLLBACK itself rejects inside the catch block: the
\* handler's promise rejects and no response is sent.
RollbackFails(r) ==
    /\ pc[r] = "rollback"
    /\ Goto(r, "hung")
    /\ UNCHANGED <<body, verified, oracleCalls, response, tables, clients>>
    /\ UNCHANGED <<oracleAnswer, dash>>

Next ==
    \E r \in Reqs :
        \/ \E b \in Bodies : Receive(r, b)
        \/ \E o \in OracleOutcomes : OracleReturn(r, o)
        \/ \E c \in Clients : Begin(r, c)
        \/ \E c \in Clients : InsertTransaction(r, c)
        \/ \E c \in Clients : UpdatePool(r, c)
        \/ \E c \in Clients : UpsertParticipant(r, c)
        \/ \E c \in Clients : UpdateParticipant(r, c)
        \/ \E c \in Clients : DeleteParticipant(r, c)
        \/ \E c \in Clients : Commit(r, c)
        \/ QueryFails(r)
        \/ \E c \in Clients : Rollback(r, c)
        \/ RollbackFails(r)

Spec == Init /\ [][Next]_vars

\* ------------------------- POST /api/transactions, the earlier revision
\* part_000:56-72: the request arrives at the earlier handler, which runs
\* on a connection pool of its own.
LegacyReceive(r, b) ==
    /\ pc[r] = "new"
    /\ \A q \in Reqs : q < r => pc[q] # "new"
    /\ body' = [body EXCEPT ![r] = b]
    /\ IF LegacyMissingRequired(b)
       THEN /\ Reply(r, MissingFields400)
            /\ Goto(r, "done")
            /\ UNCHANGED oracleCalls
       ELSE IF b.chain \in {"Sepolia", "SolanaDevnet"}
       THEN /\ oracleCalls' = [oracleCalls EXCEPT ![r] = @ + 1]
            /\ Goto(r, "legacy_verify")
            /\ UNCHANGED response
       ELSE /\ Reply(r, NotVerified400)
            /\ Goto(r, "done")
            /\ UNCHANGED oracleCalls
    /\ UNCHANGED <<verified, tables, clients>>
    /\ UNCHANGED <<oracleAnswer, dash>>

\* part_000:67-86
LegacyOracleReturn(r, o) ==
    /\ pc[r] = "legacy_verify"
    /\ LET v == IF body[r].chain = "Sepolia"
                THEN verifyOnSepolia(o)
                ELSE verifyOnSolana(o)
       IN  /\ verified' = [verified EXCEPT ![r] = v]
           /\ oracleAnswer' = [oracleAnswer EXCEPT ![r] = o]
           /\ IF v
              THEN Goto(r, "legacy_insert") /\ UNCHANGED response
              ELSE Goto(r, "done") /\ Reply(r, NotVerified400)
    /\ UNCHANGED <<body, oracleCalls, tables, clients>>
    /\ UNCHANGED dash

\* part_000:81-94: a single INSERT outside any transaction, with txType as
\* it was sent, then the 200.
LegacyInsert(r) ==
    /\ pc[r] = "legacy_insert"
    /\ transactions' = transactions \cup {TransactionRow(r, body[r].txType)}
    /\ Reply(r, Ok200)
    /\ Goto(r, "done")
    /\ UNCHANGED <<body, verified, oracleCalls, pools, pool_participants,
                   clients>>
    /\ UNCHANGED <<oracleAnswer, dash>>

\* part_000:95-98: the INSERT rejects; 500 without any ROLLBACK.
LegacyInsertFails(r) ==
    /\ pc[r] = "legacy_insert"
    /\ Reply(r, ServerError500)
    /\ Goto(r, "done")
    /\ UNCHANGED <<body, verified, oracleCalls, tables, clients>>
    /\ UNCHANGED <<oracleAnswer, dash>>

NextLegacy ==
    \E r \in Reqs :
        \/ \E b \in Bodies : LegacyReceive(r, b)
        \/ \E o \in OracleOutcomes : LegacyOracleReturn(r, o)
        \/ LegacyInsert(r)
        \/ LegacyInsertFails(r)

\* The earlier revision alone.
SpecLegacy == Init /\ [][NextLegacy]_vars

\* Both revisions serving requests against the same database.
SpecBoth == Init /\ [][Next \/ NextLegacy]_vars

\* ------------------------------------------ GET /api/dashboard/:wallet
MaxTime == 2
Times == 1..MaxTime
Wallets == {"0xu1", "0xu2"}
DashPoolIds == {1, 2}

\* A JavaScript number: NaN, or the number n.
Num(n) == [nan |-> FALSE, n |-> n]
NaN == [nan |-> TRUE, n |-> 0]

\* index.js:347-354, the literal `units`.
units ==
    [seconds |-> 1, minutes |-> 60, hours |-> 3600, days |-> 86400,
     weeks |-> 604800, months |-> 2592000]

\* `units` is an object literal, so units[k] also finds what every object
\* inherits from Object.prototype (toString, constructor, valueOf, ...):
\* a function, which is truthy. One such key stands for them all.
ObjectPrototypeKeys == {"toString"}

\* index.js:346-356. units[lockUnit] || 1 is the table's multiplier, or the
\* inherited function, or 1 when the lookup gives undefined; a number times
\* a function is NaN.
convertLockToSeconds(lockValue, lockUnit) ==
    IF lockUnit \in DOMAIN units
    THEN Num(lockValue * units[lockUnit])
    ELSE IF lockUnit \in ObjectPrototypeKeys
    THEN NaN
    ELSE Num(lockValue * 1)

\* The (withdraw_lock, withdraw_lock_unit) pairs a pool row may carry:
\* index.js:307-308 stores the unit text as the pool's creator sent it.
LockSettings ==
    {<<5, "days">>, <<2, "weeks">>, <<1, "unknownunit">>, <<1, "toString">>,
     <<3, "seconds">>, <<3, "minutes">>, <<3, "hours">>, <<3, "months">>}

\* The columns of a pools row that the dashboard's result depends on
\* (pool_name, chain and current_pool_balance are copied through).
DashPoolRows ==
    [owner_address : Wallets, created_on : Times, lock : LockSettings]

\* Table pools by id, and table pool_participants as the deposit_timestamp
\* of each (pool_id, user_address) row; a participant row may name a pool
\* that does not exist.
DashPoolTables ==
    UNION {[ids -> DashPoolRows] : ids \in SUBSET DashPoolIds \ {{}}}
DashParticipantTables ==
    UNION {[keys -> Times] : keys \in SUBSET (DashPoolIds \X Wallets)}

InitDashboard ==
    /\ pc = [r \in Reqs |-> "new"]
    /\ body = [r \in Reqs |-> NoBody]
    /\ verified = [r \in Reqs |-> FALSE]
    /\ oracleCalls = [r \in Reqs |-> 0]
    /\ oracleAnswer = [r \in Reqs |-> NotAsked]
    /\ response = [r \in Reqs |-> NoResponse]
    /\ transactions = {}
    /\ pools = InitialPools
    /\ pool_participants = {}
    /\ clients = [c \in Clients |-> NoTx]
    /\ dash \in [walletAddress : Wallets, pools : DashPoolTables,
                 pool_participants : DashParticipantTables,
                 sent : {FALSE}, response : {<<>>}]

\* index.js:362-371, poolsCreatedQuery: the rows of pools the wallet owns.
poolsCreatedQuery(walletAddress) ==
    {p \in DOMAIN dash.pools : dash.pools[p].owner_address = walletAddress}

\* index.js:373-387, poolsDepositedQuery: the pools joined with the
\* wallet's participant rows, one row per pool id.
poolsDepositedQuery(walletAddress) ==
    {p \in DOMAIN dash.pools :
        <<p, walletAddress>> \in DOMAIN dash.pool_participants}

\* index.js:394-397
createdPools(p) ==
    [type |-> "Pool Created", id |-> p,
     created_on |-> dash.pools[p].created_on]

\* index.js:399-411
depositedPools(p, walletAddress) ==
    [type |-> "Deposit", id |-> p,
     deposit_timestamp |-> dash.pool_participants[<<p, walletAddress>>],
     withdraw_lock_seconds |->
        convertLockToSeconds(dash.pools[p].lock[1], dash.pools[p].lock[2])]

\* index.js:415-416, entry.created_on || entry.deposit_timestamp
EntryTime(e) ==
    IF "created_on" \in DOMAIN e THEN e.created_on ELSE e.deposit_timestamp

\* The comparator with its operands exchanged: ascending order.
compareEntries_Ascending(a, b) == EntryTime(a) - EntryTime(b)

\* index.js:414-417, the comparator handed to sort.
compareEntries(a, b) == EntryTime(b) - EntryTime(a)

\* Array.prototype.sort, which is stable: each entry in turn is put behind
\* the last entry that the comparator does not order after it.
InsertSorted(s, e) ==
    LET k == CHOOSE j \in 0..Len(s) :
                /\ j = 0 \/ compareEntries(s[j], e) <= 0
                /\ \A i \in (j + 1)..Len(s) : compareEntries(s[i], e) > 0
    IN  SubSeq(s, 1, k) \o <<e>> \o SubSeq(s, k + 1, Len(s))

RECURSIVE Sort(_)
Sort(s) ==
    IF s = <<>> THEN <<>>
    ELSE InsertSorted(Sort(SubSeq(s, 1, Len(s) - 1)), s[Len(s)])

\* The sequences that list each member of set S once.
Orderings(S) ==
    {s \in [1..Cardinality(S) -> S] : \A x \in S : \E i \in DOMAIN s : s[i] = x}

\* index.js:358-424. createdOrder is the order in which the database
\* returns the rows of poolsCreatedQuery, which has no ORDER BY;
\* poolsDepositedQuery is ordered by pool id.
GetDashboard(createdOrder) ==
    /\ ~dash.sent
    /\ createdOrder \in Orderings(poolsCreatedQuery(dash.walletAddress))
    /\ LET deposited == poolsDepositedQuery(dash.walletAddress)
           depositedOrder ==
               CHOOSE s \in Orderings(deposited) :
                   \A i, j \in DOMAIN s : i < j => s[i] < s[j]
           combinedPools ==
               [i \in DOMAIN createdOrder |-> createdPools(createdOrder[i])]
               \o [i \in DOMAIN depositedOrder |->
                      depositedPools(depositedOrder[i], dash.walletAddress)]
       IN  dash' = [dash EXCEPT !.sent = TRUE,
                                !.response = Sort(combinedPools)]
    /\ UNCHANGED <<pc, body, verified, oracleCalls, oracleAnswer, response,
                   tables, clients>>

NextDashboard ==
    \E createdOrder \in UNION {Orderings(S) : S \in SUBSET DashPoolIds} :
        GetDashboard(createdOrder)

SpecDashboard == InitDashboard /\ [][NextDashboard]_vars

\* ================================================================ claims
RowsBy(r) == {row \in transactions : row.req = r}
StagedTx == UNION {clients[c].wTx : c \in Clients}
Received(r) == pc[r] # "new"
Steps(r) == pc'[r] # pc[r]

RECURSIVE SumAmounts(_)
SumAmounts(rows) ==
    IF rows = {} THEN 0
    ELSE LET row == CHOOSE x \in rows : TRUE
         IN  COALESCE(row.amount, 0) + SumAmounts(rows \ {row})

\* C1: a step of a request for which the verifier has not returned true
\* leaves the committed rows as they are and stages no write on any client
\* (at most it ends a client's open transaction), and every Transaction
\* row, committed or staged, was inserted by a request whose verification
\* returned true.
C1_VerifiedBeforeAnyWrite ==
    /\ [](\A row \in transactions \cup StagedTx : verified[row.req])
    /\ [][\A r \in Reqs :
            (Steps(r) /\ ~verified[r]) =>
                /\ UNCHANGED tables
                /\ \A c \in Clients :
                      clients'[c] = clients[c] \/ clients'[c] = NoTx]_vars

\* A single verified request went through the whole unit: its row, the
\* pool adjustment and its participant row are committed.
C1_Witness ==
    \E row \in transactions :
        /\ verified[row.req]
        /\ response[row.req] = Ok200
        /\ oracleCalls[row.req] = 1
        /\ \A q \in Reqs \ {row.req} : ~Received(q)
        /\ pools[1].current_pool_balance = Val(COALESCE(row.amount, 0))
        /\ \E part \in pool_participants :
              Matches(part, row.pool_id, row.user_address)

\* C2: a request whose ledger unit failed (answered 500) leaves none of its
\* effects visible: no committed Transaction row of its own, and, when it
\* is the only request so far, pools and pool_participants as they were
\* before it.
C2_FailedUnitLeavesNoTrace ==
    \A r \in Reqs :
        response[r] = ServerError500 =>
            /\ RowsBy(r) = {}
            /\ (\A q \in Reqs \ {r} : ~Received(q)) =>
                   /\ pools = InitialPools
                   /\ pool_participants = {}

\* C3: conservation: every pool's committed balance (NULL as 0) is its
\* initial balance (NULL, so 0) plus the committed deposit amounts minus
\* the committed withdraw amounts of that pool.
C3_Conservation ==
    \A p \in ExistingPools :
        COALESCE(pools[p].current_pool_balance, 0) =
            SumAmounts({row \in transactions :
                          row.pool_id = p /\ row.transaction_type = "deposit"})
            - SumAmounts({row \in transactions :
                          row.pool_id = p /\ row.transaction_type = "withdraw"})

\* C4: no lost update: when every request is a deposit into pool 1, by
\* pairwise different users, and all of them have been answered 200, the
\* pool's balance is the original balance plus all their amounts, and each
\* has its Transaction row and its Participant row.
C4_NoLostUpdate ==
    ( /\ \A r \in Reqs :
            /\ response[r] = Ok200
            /\ txTypeLower(r) = "deposit"
            /\ body[r].poolId = 1
      /\ \A r, q \in Reqs :
            r # q => body[r].userAddress # body[q].userAddress )
    => /\ pools[1].current_pool_balance =
              Val(SumAmounts({[amount |-> Val(amountNumber(r)), req |-> r] :
                                 r \in Reqs}))
       /\ \A r \in Reqs :
            /\ RowsBy(r) # {}
            /\ \E row \in pool_participants :
                   Matches(row, 1, body[r].userAddress)

\* C5: isolation: a request answered 200 has its Transaction row durably
\* applied; the ROLLBACK of a request discards no staged row of another
\* request, and the COMMIT of a request makes no row of another request
\* durable.
C5_Isolation ==
    /\ [](\A r \in Reqs : response[r] = Ok200 => RowsBy(r) # {})
    /\ [][\A r \in Reqs :
            /\ (pc[r] = "rollback" /\ Steps(r)) =>
                   \A c \in Clients :
                       {w \in clients[c].wTx : w.req # r}
                           \subseteq clients'[c].wTx
            /\ (pc[r] = "commit" /\ Steps(r)) =>
                   \A row \in transactions' \ transactions : row.req = r]_vars

\* C6: a request whose verification comes out false (an oracle answer that
\* does not verify, or a chain no verifier is asked about) is answered 400
\* "Could not verify transaction on-chain" by that very step, which leaves
\* the committed and the staged rows as they were; an answered request
\* takes no further step.
C6_UnverifiedRejectedUnchanged ==
    [][\A r \in Reqs :
         /\ ( /\ pc[r] \in {"new", "verify"}
              /\ pc'[r] \notin {"new", "verify"}
              /\ ~MissingRequired(body'[r])
              /\ HasToLowerCase(body'[r].txType)
              /\ ~verified'[r] )
            => /\ response'[r] = NotVerified400
               /\ pc'[r] = "done"
               /\ UNCHANGED <<tables, clients>>
         /\ pc[r] = "done" => (pc'[r] = "done" /\ response'[r] = response[r])
      ]_vars

\* Two submissions of the same reference were both turned down by the
\* oracle, and the store is untouched.
C6_Witness ==
    \E r, q \in Reqs :
        /\ r # q
        /\ body[r].txHashOrSig = body[q].txHashOrSig
        /\ \A x \in {r, q} :
              /\ pc[x] = "done"
              /\ oracleCalls[x] = 1
              /\ ~verified[x]
              /\ response[x] = NotVerified400
        /\ transactions = {}
        /\ pools = InitialPools
        /\ pool_participants = {}

\* C7: every committed Participant row has amount >= 0.
C7_ParticipantAmountNonNegative ==
    \A row \in pool_participants : row.amount >= 0

\* C8: every pool's active_entries, committed or staged, is NULL (never
\* written) or >= 0.
C8_ActiveEntriesNonNegative ==
    /\ \A p \in ExistingPools :
          pools[p].active_entries = NULL \/ pools[p].active_entries[1] >= 0
    /\ \A c \in Clients : \A w \in clients[c].wPools :
          w.row.active_entries = NULL \/ w.row.active_entries[1] >= 0

\* An accepted withdrawal was applied first to the pool whose
\* active_entries was still NULL, and another one to it at 0.
C8_Witness ==
    \E r, q \in Reqs :
        /\ r # q
        /\ \A x \in {r, q} :
              /\ response[x] = Ok200
              /\ txTypeLower(x) = "withdraw"
              /\ body[x].poolId = 1
        /\ Cardinality(RowsBy(r) \cup RowsBy(q)) = 2
        /\ pools[1].active_entries = Val(0)

\* C9: a request whose txType is, after case normalization, neither
\* "deposit" nor "withdraw" is never accepted (answered 200).
C9_UnknownTypeRejected ==
    \A r \in Reqs :
        ( /\ Received(r)
          /\ ~MissingRequired(body[r])
          /\ HasToLowerCase(body[r].txType)
          /\ txTypeLower(r) \notin {"deposit", "withdraw"} )
        => response[r] # Ok200

\* C10: a request with a missing or empty field, or without amount, is
\* answered 400 "Missing required fields", with no oracle call and no
\* Transaction row of its own.
C10_MissingFieldsRejected ==
    \A r \in Reqs :
        (Received(r) /\ MissingRequired(body[r])) =>
            /\ response[r] = MissingFields400
            /\ oracleCalls[r] = 0
            /\ RowsBy(r) = {}

\* The step in which request r is answered 200: the handler's COMMIT.
Succeeds(r) == pc[r] = "commit" /\ response'[r] = Ok200
ParticipantRows(rows, poolId, userAddress) ==
    {row \in rows : Matches(row, poolId, userAddress)}

\* C11: a request whose amount is negative is never applied; it is never
\* answered 200.
C11_NegativeAmountRejected ==
    \A r \in Reqs :
        (Received(r) /\ body[r].amount.def /\ body[r].amount.v < 0)
            => response[r] # Ok200

\* C12: the step that answers a request 200 adds exactly one transactions
\* row, that of the request, changes exactly one pools row, that of the
\* request's poolId, and changes at most the one pool_participants row of
\* the request's (poolId, userAddress); every other row stays as it was.
\* Accordingly the UPDATE of pools of a request that goes on writes the
\* pools row of the request's poolId.
C12_FrameOfSuccessfulCall ==
    /\ [][\A r \in Reqs :
            (pc[r] = "poolupd" /\ pc'[r] \in {"partins", "partupd", "commit"})
                => /\ body[r].poolId \in ExistingPools
                   /\ \/ pools'[body[r].poolId] # pools[body[r].poolId]
                      \/ \E c \in Clients :
                            clients'[c].wPools # clients[c].wPools]_vars
    /\ [][\A r \in Reqs : Succeeds(r) =>
             /\ \E row \in transactions' \ transactions :
                   /\ row.req = r
                   /\ transactions' = transactions \cup {row}
             /\ \E p \in ExistingPools :
                   /\ p = body[r].poolId
                   /\ pools'[p] # pools[p]
                   /\ \A q \in ExistingPools \ {p} : pools'[q] = pools[q]
             /\ pool_participants' \
                   ParticipantRows(pool_participants', body[r].poolId,
                                   body[r].userAddress)
                = pool_participants \
                   ParticipantRows(pool_participants, body[r].poolId,
                                   body[r].userAddress)
             /\ Cardinality(ParticipantRows(pool_participants', body[r].poolId,
                                            body[r].userAddress)) <= 1]_vars

\* C13: the step that answers a deposit 200 records its transactions row
\* with type "deposit", raises the pool's balance by the amount and its
\* active_entries by 1, and leaves exactly one participant row of
\* (poolId, userAddress), holding the amount or the earlier amount plus the
\* amount; no two rows of pool_participants ever share (pool_id,
\* user_address).
C13_DepositPostcondition ==
    /\ [](\A x, y \in pool_participants :
            Matches(x, y.pool_id, y.user_address) => x = y)
    /\ [][\A r \in Reqs : (Succeeds(r) /\ txTypeLower(r) = "deposit") =>
            LET P == body[r].poolId
                a == amountNumber(r)
                old == ParticipantRows(pool_participants, P,
                                       body[r].userAddress)
                new == ParticipantRows(pool_participants', P,
                                       body[r].userAddress)
            IN  /\ \E row \in transactions' \ transactions :
                      row.req = r /\ row.transaction_type = "deposit"
                /\ P \in ExistingPools =>
                      /\ pools'[P].current_pool_balance
                           = Val(COALESCE(pools[P].current_pool_balance, 0) + a)
                      /\ pools'[P].active_entries
                           = Val(COALESCE(pools[P].active_entries, 0) + 1)
                /\ Cardinality(new) = 1
                /\ old = {} => \A n \in new : n.amount = a
                /\ \A o \in old : \A n \in new : n.amount = o.amount + a]_vars

\* C14: the step that answers a withdrawal 200 lowers the pool's balance by
\* the amount and its active_entries by 1, not below 0; a participant row
\* of (poolId, userAddress) that held m is gone when m - amount <= 0 and
\* holds m - amount otherwise.
C14_WithdrawPostcondition ==
    [][\A r \in Reqs : (Succeeds(r) /\ txTypeLower(r) = "withdraw") =>
          LET P == body[r].poolId
              a == amountNumber(r)
              old == ParticipantRows(pool_participants, P,
                                     body[r].userAddress)
              new == ParticipantRows(pool_participants', P,
                                     body[r].userAddress)
          IN  /\ P \in ExistingPools =>
                    /\ pools'[P].current_pool_balance
                         = Val(COALESCE(pools[P].current_pool_balance, 0) - a)
                    /\ pools'[P].active_entries
                         = Val(IF COALESCE(pools[P].active_entries, 0) >= 1
                               THEN COALESCE(pools[P].active_entries, 0) - 1
                               ELSE 0)
              /\ \A o \in old :
                    IF o.amount - a <= 0
                    THEN new = {}
                    ELSE new = {[o EXCEPT !.amount = o.amount - a]}]_vars

\* C15: the oracle is queried at most once per request, and only for the
\* chains Sepolia and SolanaDevnet; a request is verified exactly when its
\* chain is Sepolia and the oracle returned a receipt of status 1, or its
\* chain is SolanaDevnet and the oracle returned a transaction; an oracle
\* that throws, a null answer and any other chain leave the request
\* unverified, and the handler answers it 400 rather than failing.
C15_VerifierDecision ==
    \A r \in Reqs :
        /\ oracleCalls[r] <= 1
        /\ (Received(r) /\ body[r].chain \notin {"Sepolia", "SolanaDevnet"})
              => oracleCalls[r] = 0 /\ ~verified[r]
        /\ oracleAnswer[r] = NotAsked => ~verified[r]
        /\ oracleAnswer[r] # NotAsked =>
              /\ oracleCalls[r] = 1
              /\ verified[r] <=>
                    \/ body[r].chain = "Sepolia" /\ oracleAnswer[r] = "success"
                    \/ /\ body[r].chain = "SolanaDevnet"
                       /\ oracleAnswer[r] \in {"success", "failed"}
              /\ ~verified[r] =>
                    pc[r] = "done" /\ response[r] = NotVerified400

\* A Solana transaction that failed on chain verifies, a Sepolia receipt of
\* a failed transaction does not.
C15_Witness ==
    \E r, q \in Reqs :
        /\ body[r].chain = "SolanaDevnet" /\ oracleAnswer[r] = "failed"
        /\ verified[r]
        /\ body[q].chain = "Sepolia" /\ oracleAnswer[q] = "failed"
        /\ ~verified[q] /\ response[q] = NotVerified400

\* C16: a request ends with a response: once the unit of a verified request
\* has been started and the handler waits for no statement any more, the
\* request has been answered 200, or 500 "Server error" when a storage
\* operation failed, also when the ROLLBACK fails too.
C16_EveryRequestAnswered ==
    \A r \in Reqs :
        (verified[r] /\ pc[r] \notin Statements \cup {"rollback"})
            => response[r] \in {Ok200, ServerError500}

\* The timestamp the tables hold for a dashboard entry.
TimeOf(e) ==
    IF e.type = "Pool Created"
    THEN dash.pools[e.id].created_on
    ELSE dash.pool_participants[<<e.id, dash.walletAddress>>]
EntriesOf(type, p) ==
    {i \in DOMAIN dash.response :
        dash.response[i].type = type /\ dash.response[i].id = p}

\* C17: the dashboard call changes no table; its response holds exactly one
\* "Pool Created" entry per pool the wallet owns and exactly one "Deposit"
\* entry per pool in which the wallet has a participant row, and nothing
\* else, in descending order of created_on, respectively deposit_timestamp.
C17_DashboardEntries ==
    /\ [][/\ dash'.pools = dash.pools
          /\ dash'.pool_participants = dash.pool_participants
          /\ UNCHANGED tables]_vars
    /\ [](dash.sent =>
            /\ \A p \in DashPoolIds :
                  /\ Cardinality(EntriesOf("Pool Created", p))
                       = IF /\ p \in DOMAIN dash.pools
                            /\ dash.pools[p].owner_address = dash.walletAddress
                         THEN 1 ELSE 0
                  /\ Cardinality(EntriesOf("Deposit", p))
                       = IF /\ p \in DOMAIN dash.pools
                            /\ <<p, dash.walletAddress>>
                                  \in DOMAIN dash.pool_participants
                         THEN 1 ELSE 0
            /\ \A i \in DOMAIN dash.response :
                  /\ dash.response[i].type \in {"Pool Created", "Deposit"}
                  /\ dash.response[i].id \in DashPoolIds
            /\ \A i, j \in DOMAIN dash.response :
                  i < j => TimeOf(dash.response[i]) >= TimeOf(dash.response[j]))

\* A wallet that owns both pools and deposited into both; one deposit is
\* newer than the creation of a pool and is listed before it.
C17_Witness ==
    /\ dash.sent
    /\ Len(dash.response) = 4
    /\ \E i, j \in DOMAIN dash.response :
          /\ i < j
          /\ dash.response[i].type = "Deposit"
          /\ dash.response[j].type = "Pool Created"
          /\ TimeOf(dash.response[i]) > TimeOf(dash.response[j])

\* C18: convertLockToSeconds(v, u) is v times the multiplier of u from the
\* table seconds 1, minutes 60, hours 3600, days 86400, weeks 604800,
\* months 2592000, and v times 1 for every other unit string; so is the
\* withdraw_lock_seconds of every Deposit entry of the dashboard.
C18_LockConversion ==
    /\ convertLockToSeconds(5, "days") = Num(432000)
    /\ convertLockToSeconds(2, "weeks") = Num(1209600)
    /\ convertLockToSeconds(1, "unknownunit") = Num(1)
    /\ \A i \in DOMAIN dash.response :
          dash.response[i].type = "Deposit" =>
              LET v == dash.pools[dash.response[i].id].lock[1]
                  u == dash.pools[dash.response[i].id].lock[2]
              IN  dash.response[i].withdraw_lock_seconds
                    = Num(v * (CASE u = "seconds" -> 1
                                 [] u = "minutes" -> 60
                                 [] u = "hours" -> 3600
                                 [] u = "days" -> 86400
                                 [] u = "weeks" -> 604800
                                 [] u = "months" -> 2592000
                                 [] OTHER -> 1))

====
